---- MODULE Spec2Model ----
(***************************************************************************)
(* Model of the EigenLVR API service (backend/server.py).                  *)
(*                                                                         *)
(* State: the two MongoDB collections the handlers write (db.status_checks *)
(* and db.auctions) and the last HTTP exchange (request and response).     *)
(* Every handler is one action.  The values the handlers draw from         *)
(* random.*, uuid.uuid4 and datetime.now are inputs of the action, taken   *)
(* from the sample sets defined below.                                     *)
(***************************************************************************)
EXTENDS Integers, Sequences, FiniteSets, TLC

VARIABLES
    status_checks,  \* db.status_checks: sequence of documents, insertion order
    auctions,       \* db.auctions: sequence of documents, insertion order
    req,            \* the last request served: [endpoint, arg]
    resp,           \* its response: [code, body]
    repeat          \* history: how resp compares with the response before it

vars == <<status_checks, auctions, req, resp, repeat>>

(***************************************************************************)
(* Bounds of the model.                                                    *)
(***************************************************************************)
MaxStatus == 2      \* POST /status requests served in one run
MaxAuctions == 2    \* POST /auctions requests accepted in one run

(***************************************************************************)
(* Program constants.                                                      *)
(***************************************************************************)
ToListLength == 1000    \* find().to_list(1000)
RecentCount == 10       \* for i in range(10)
OperatorCount == 12     \* for i in range(12)

(***************************************************************************)
(* Generic helpers.                                                        *)
(***************************************************************************)
Min(a, b) == IF a <= b THEN a ELSE b

\* the record r with field k set to v, and r without field k
With(r, k, v) == [x \in DOMAIN r \cup {k} |-> IF x = k THEN v ELSE r[x]]
Without(r, k) == [x \in DOMAIN r \ {k} |-> r[x]]

\* random.randint(lo, hi): the model samples both ends of the range.
RandInt(lo, hi) == {lo, hi}

\* random.randint(lo, hi), one sample: the low end of the range.
RandIntLow(lo, hi) == {lo}

(***************************************************************************)
(* Identifiers.  An identifier is a pair <<kind, n>>:                      *)
(*   <<"uuid", n>>    str(uuid.uuid4())                                    *)
(*   <<"oid", n>>     str(ObjectId) given by insert_one                    *)
(*   <<"client", n>>  a string chosen by the client                       *)
(* uuid4 yields a value that is held nowhere in the system: the model      *)
(* takes the least unused numbers.                                         *)
(***************************************************************************)
UuidsIn(s) == {s[i].id[2] : i \in {j \in DOMAIN s : s[j].id[1] = "uuid"}}

\* the uuid numbers held by the store or by the last response
HeldUuids ==
    UuidsIn(status_checks) \cup UuidsIn(auctions)
        \cup (IF resp.kind = "list" THEN UuidsIn(resp.body) ELSE {})
        \cup (IF resp.kind = "record" /\ resp.body.id[1] = "uuid"
                THEN {resp.body.id[2]} ELSE {})

RECURSIVE LeastUuids(_, _)
\* the identifiers of the n least numbers of free, in increasing order
LeastUuids(free, n) ==
    IF n = 0 THEN <<>>
    ELSE LET m == CHOOSE k \in free : \A j \in free : k <= j
         IN  <<(<<"uuid", m>>)>> \o LeastUuids(free \ {m}, n - 1)

\* n calls of uuid.uuid4()
Uuid4(n) == LeastUuids((1..(Cardinality(HeldUuids) + n)) \ HeldUuids, n)

\* the _id insert_one gives a document that has none
NewObjectId(coll) == <<"oid", Len(coll) + 1>>

\* coll.insert_one(doc): the document is stored with its _id
InsertOne(coll, doc) == Append(coll, With(doc, "_id", NewObjectId(coll)))

(***************************************************************************)
(* Time.  An instant is a number of seconds since 1970-01-01 00:00:00.     *)
(***************************************************************************)
\* datetime.now() / datetime.utcnow(): 2026-01-01 00:03:20
NowDraws == {1767225800}

\* days since the epoch -> <<year, month, day>> (proleptic Gregorian)
CivilFromDays(z0) ==
    LET z == z0 + 719468
        era == z \div 146097
        doe == z - era * 146097
        yoe == (doe - doe \div 1460 + doe \div 36524 - doe \div 146096) \div 365
        y == yoe + era * 400
        doy == doe - (365 * yoe + yoe \div 4 - yoe \div 100)
        mp == (5 * doy + 2) \div 153
        d == doy - (153 * mp + 2) \div 5 + 1
        m == IF mp < 10 THEN mp + 3 ELSE mp - 9
    IN  <<IF m <= 2 THEN y + 1 ELSE y, m, d>>

\* the fields of an instant: <<year, month, day, hour, minute, second>>
DateFields(t) ==
    LET ymd == CivilFromDays(t \div 86400)
        sod == t % 86400
    IN  <<ymd[1], ymd[2], ymd[3], sod \div 3600, (sod % 3600) \div 60, sod % 60>>

\* A string is the sequence of the code points of its characters:
\* '0'..'9' are 48..57, ' ' 32, ',' 44, '-' 45, '.' 46, ':' 58, 'T' 84.
Digit(d) == 48 + d
Digits2(n) == <<Digit(n \div 10), Digit(n % 10)>>
Digits3(n) == <<Digit(n \div 100), Digit((n \div 10) % 10), Digit(n % 10)>>
Digits4(n) == <<Digit(n \div 1000)>> \o Digits3(n % 1000)

\* strftime("%Y-%m-%d %H:%M:%S"): every field zero-padded to its width
Strftime(t) ==
    LET f == DateFields(t)
    IN  Digits4(f[1]) \o <<45>> \o Digits2(f[2]) \o <<45>> \o Digits2(f[3])
        \o <<32>> \o Digits2(f[4]) \o <<58>> \o Digits2(f[5])
        \o <<58>> \o Digits2(f[6])

\* datetime.isoformat() (to the second)
IsoformatOf(t) ==
    LET f == DateFields(t)
    IN  Digits4(f[1]) \o <<45>> \o Digits2(f[2]) \o <<45>> \o Digits2(f[3])
        \o <<84>> \o Digits2(f[4]) \o <<58>> \o Digits2(f[5])
        \o <<58>> \o Digits2(f[6])

\* the instants a handler formats: now, or up to 1440 minutes before now
Instants == {now - 60 * m : now \in NowDraws, m \in 0..1440}

\* the two conversions, tabulated over Instants
StrftimeTable == [t \in Instants |-> Strftime(t)]
IsoformatTable == [t \in Instants |-> IsoformatOf(t)]
Isoformat(t) == IsoformatTable[t]

\* Python's str <: lexicographic by code point, a proper prefix is smaller
StrLess(a, b) ==
    LET n == Min(Len(a), Len(b))
        diff == {i \in 1..n : a[i] # b[i]}
    IN  IF diff = {} THEN Len(a) < Len(b)
        ELSE LET k == CHOOSE i \in diff : \A j \in diff : i <= j
             IN  a[k] < b[k]

(***************************************************************************)
(* Responses.                                                              *)
(***************************************************************************)
NoRequest == [endpoint |-> "none", arg |-> <<>>]
NoResponse == [code |-> 0, kind |-> "none", body |-> <<>>]

\* FastAPI's answer to a body that fails pydantic validation
ValidationError == [code |-> 422, kind |-> "error", body |-> <<"ValidationError">>]

\* how a response compares with the one before it, when both answer the same
\* GET on the same argument (no request, so no write, lies between them)
Compare(endpoint, arg, new) ==
    IF req.endpoint = endpoint /\ req.arg = arg
    THEN (IF new = resp THEN "same" ELSE "differ")
    ELSE "none"

(***************************************************************************)
(* POST /status and GET /status.                                           *)
(***************************************************************************)
ClientNames == {"alpha"}

\* the JSON bodies a client posts to /status: with and without client_name
StatusBodies == {[client_name |-> n] : n \in ClientNames} \cup {[other |-> "x"]}

\* StatusCheckCreate(**body): client_name is required
ValidStatusCreate(body) == "client_name" \in DOMAIN body

\* StatusCheck(**status_dict): id and timestamp from the default factories
StatusCheck(body, now) ==
    [id |-> Uuid4(1)[1], client_name |-> body.client_name, timestamp |-> now]

\* the documents of db.status_checks that this run of the service inserted
ServedStatus == {i \in DOMAIN status_checks : status_checks[i].client_name \in ClientNames}

create_status_check(body) ==
    /\ req' = [endpoint |-> "POST /status", arg |-> body]
    /\ repeat' = "none"
    /\ UNCHANGED auctions
    /\ IF ~ValidStatusCreate(body)
       THEN /\ resp' = ValidationError
            /\ UNCHANGED status_checks
       ELSE /\ Cardinality(ServedStatus) < MaxStatus
            /\ \E now \in NowDraws :
                 LET status_obj == StatusCheck(body, now)
                 IN  /\ status_checks' = InsertOne(status_checks, status_obj)
                     /\ resp' = [code |-> 200, kind |-> "record", body |-> status_obj]

\* to_list that stops one document early
ToListShort(coll, length) == SubSeq(coll, 1, Min(Len(coll), length - 1))

\* find().to_list(length): the first length documents of the collection
ToList(coll, length) == SubSeq(coll, 1, Min(Len(coll), length))

\* StatusCheck(**status_check): the model's fields of the document
StatusCheckOf(doc) ==
    [id |-> doc.id, client_name |-> doc.client_name, timestamp |-> doc.timestamp]

get_status_checks ==
    LET found == ToList(status_checks, ToListLength)
        new == [code |-> 200, kind |-> "list",
                body |-> [i \in 1..Len(found) |-> StatusCheckOf(found[i])]]
    IN  /\ req' = [endpoint |-> "GET /status", arg |-> <<>>]
        /\ resp' = new
        /\ repeat' = Compare("GET /status", <<>>, new)
        /\ UNCHANGED <<status_checks, auctions>>

(***************************************************************************)
(* Numbers as text.                                                        *)
(***************************************************************************)
RECURSIVE Pow10(_)
Pow10(d) == IF d = 0 THEN 1 ELSE 10 * Pow10(d - 1)

RECURSIVE IntStr(_)
\* str(n) for an int n >= 0
IntStr(n) == IF n < 10 THEN <<Digit(n)>> ELSE IntStr(n \div 10) \o <<Digit(n % 10)>>

RECURSIVE FixedDigits(_, _)
\* f written with exactly d digits
FixedDigits(f, d) ==
    IF d = 0 THEN <<>> ELSE FixedDigits(f \div 10, d - 1) \o <<Digit(f % 10)>>

RECURSIVE FracStr(_, _)
\* the d digits of f with the trailing zeros dropped, at least one digit kept
FracStr(f, d) ==
    IF d = 1 THEN <<Digit(f)>>
    ELSE IF f % 10 = 0 THEN FracStr(f \div 10, d - 1)
    ELSE FixedDigits(f, d)

\* str(x) of the float x = n / 10^d that round(_, d) returned: the shortest
\* decimal that reads back as x
FloatStr(n, d) == IntStr(n \div Pow10(d)) \o <<46>> \o FracStr(n % Pow10(d), d)

RECURSIVE DigitsValue(_)
\* the number a string of digits denotes
DigitsValue(s) ==
    IF s = <<>> THEN 0
    ELSE 10 * DigitsValue(SubSeq(s, 1, Len(s) - 1)) + (s[Len(s)] - 48)

\* the decimal number a string denotes, in units of 10^-d
DecimalValue(s, d) ==
    LET dot == CHOOSE i \in 1..Len(s) : s[i] = 46
        frac == SubSeq(s, dot + 1, Len(s))
    IN  DigitsValue(SubSeq(s, 1, dot - 1)) * Pow10(d)
            + DigitsValue(frac) * Pow10(d - Len(frac))

\* round(num / den, _) where num / den is counted in the last kept digit:
\* the nearest integer; on a decimal tie the binary float lies on either
\* side of it, so either neighbour
RoundDraws(num, den) ==
    LET q == num \div den
        r == num % den
    IN  IF 2 * r < den THEN {q}
        ELSE IF 2 * r > den THEN {q + 1}
        ELSE {q, q + 1}

\* f"0x{n:x}{'0' * 23}"
HexAddress(n) == <<"0x", n>>

(***************************************************************************)
(* GET /auctions/summary.                                                  *)
(***************************************************************************)
\* round(random.uniform(50.0, 200.0), 2) in cents: both ends and a value
\* whose 85% is a decimal tie
MevDraws == {5000, 5010, 20000}

\* the LP share added to the recovered value instead of taken from it
LPRewardsDrawsSurcharge(total_mev) == RoundDraws(total_mev * 115, 100)

\* round(total_mev * 0.85, 2), in cents
LPRewardsDraws(total_mev) == RoundDraws(total_mev * 85, 100)

AuctionSummary(active_auctions, total_mev, total_rewards, operator_count) ==
    [activeAuctions |-> active_auctions,
     totalMEVRecovered |-> FloatStr(total_mev, 2),
     totalLPRewards |-> FloatStr(total_rewards, 2),
     avsOperatorCount |-> operator_count]

get_auction_summary ==
    \E active_auctions \in RandInt(0, 5), total_mev \in MevDraws,
       operator_count \in RandIntLow(8, 15) :
      \E total_rewards \in LPRewardsDraws(total_mev) :
        LET new == [code |-> 200, kind |-> "summary",
                    body |-> AuctionSummary(active_auctions, total_mev,
                                            total_rewards, operator_count)]
        IN  /\ req' = [endpoint |-> "GET /auctions/summary", arg |-> <<>>]
            /\ resp' = new
            /\ repeat' = Compare("GET /auctions/summary", <<>>, new)
            /\ UNCHANGED <<status_checks, auctions>>

(***************************************************************************)
(* POST /auctions.                                                         *)
(***************************************************************************)
ClientIds == {<<"client", 1>>}

\* the body backend_test.py posts
TestAuction ==
    [poolId |-> "0xpool", winner |-> "0xwinner", winningBid |-> "1.234",
     totalBids |-> 5, timestamp |-> Strftime(1767225800), blockNumber |-> 18550000]

\* the JSON bodies a client posts to /auctions
AuctionBodies ==
    {TestAuction, With(TestAuction, "totalBids", -1), Without(TestAuction, "totalBids")}
        \cup {With(TestAuction, "id", i) : i \in ClientIds}

AuctionRequired == {"poolId", "winner", "winningBid", "totalBids", "timestamp", "blockNumber"}

\* AuctionRecord(**body): the fields without a default are required; no
\* field carries a range or enumeration constraint
ValidAuctionRecord(body) == AuctionRequired \subseteq DOMAIN body

\* auction.dict(): id and status filled from their defaults when absent
AuctionDict(body) ==
    [id |-> IF "id" \in DOMAIN body THEN body.id ELSE Uuid4(1)[1],
     poolId |-> body.poolId,
     winner |-> body.winner,
     winningBid |-> body.winningBid,
     totalBids |-> body.totalBids,
     timestamp |-> body.timestamp,
     status |-> IF "status" \in DOMAIN body THEN body.status ELSE "completed",
     blockNumber |-> body.blockNumber]

create_auction(body) ==
    /\ req' = [endpoint |-> "POST /auctions", arg |-> body]
    /\ repeat' = "none"
    /\ UNCHANGED status_checks
    /\ IF ~ValidAuctionRecord(body)
       THEN /\ resp' = ValidationError
            /\ UNCHANGED auctions
       ELSE /\ Len(auctions) < MaxAuctions
            /\ auctions' = InsertOne(auctions, AuctionDict(body))
            /\ resp' = [code |-> 201, kind |-> "created",
                        body |-> [id |-> NewObjectId(auctions),
                                  message |-> "Auction created successfully"]]

(***************************************************************************)
(* GET /auctions/{auction_id}.                                             *)
(***************************************************************************)
\* the identifiers a client asks for: strings of its own, and the
\* identifiers of the stored auctions
StoredAuctionIds == {auctions[i].id : i \in DOMAIN auctions}
RequestedIds == {<<"client", 1>>, <<"client", 2>>} \cup StoredAuctionIds

Participant(address, bid, minutes, now) ==
    [address |-> HexAddress(address),
     bid |-> FloatStr(bid, 3),
     timestamp |-> Isoformat(now - 60 * minutes)]

\* the detail record with a generated address in place of the requested id
AuctionDetailsOwnId(auction_id, now, total_bids, participants) ==
    [id |-> HexAddress(100000000),
     poolId |-> HexAddress(100000000),
     status |-> "completed",
     startTime |-> Isoformat(now - 60 * 5),
     endTime |-> Isoformat(now),
     winner |-> HexAddress(100000000),
     winningBid |-> FloatStr(1000, 3),
     totalBids |-> total_bids,
     participants |-> participants,
     lvrAmount |-> FloatStr(2000, 3),
     gasUsed |-> 150000,
     blockNumber |-> 18500000]

AuctionDetails(auction_id, now, total_bids, participants) ==
    [id |-> auction_id,
     poolId |-> HexAddress(100000000),
     status |-> "completed",
     startTime |-> Isoformat(now - 60 * 5),
     endTime |-> Isoformat(now),
     winner |-> HexAddress(100000000),
     winningBid |-> FloatStr(1000, 3),
     totalBids |-> total_bids,
     participants |-> participants,
     lvrAmount |-> FloatStr(2000, 3),
     gasUsed |-> 150000,
     blockNumber |-> 18500000]

get_auction_details(auction_id) ==
    \E now \in NowDraws, total_bids \in RandInt(5, 15), n \in RandInt(3, 8) :
      \E address \in [1..n -> RandIntLow(100000000, 999999999)],
         bid \in [1..n -> RandIntLow(500, 4000)],
         minutes \in [1..n -> RandIntLow(1, 4)] :
        LET participants == [i \in 1..n |->
                               Participant(address[i], bid[i], minutes[i], now)]
            new == [code |-> 200, kind |-> "details",
                    body |-> AuctionDetails(auction_id, now, total_bids, participants)]
        IN  /\ req' = [endpoint |-> "GET /auctions/{auction_id}", arg |-> auction_id]
            /\ resp' = new
            /\ repeat' = Compare("GET /auctions/{auction_id}", auction_id, new)
            /\ UNCHANGED <<status_checks, auctions>>

(***************************************************************************)
(* GET /auctions/recent.                                                   *)
(***************************************************************************)
\* AuctionRecord(poolId=..., ...): id from uuid4, status from its default
AuctionRecord(id, pool_id, winner, winning_bid, total_bids, timestamp, block_number) ==
    [id |-> id,
     poolId |-> HexAddress(pool_id),
     winner |-> HexAddress(winner),
     winningBid |-> FloatStr(winning_bid, 3),
     totalBids |-> total_bids,
     timestamp |-> timestamp,
     status |-> "completed",
     blockNumber |-> block_number]

\* the greatest string of a non-empty set
MaxStr(K) == CHOOSE k \in K : \A j \in K : ~StrLess(k, j)

RECURSIVE DescendingByKey(_, _)
\* the records of s whose timestamp is in K, greatest timestamp first;
\* records with the same timestamp in the order they have in s
DescendingByKey(s, K) ==
    IF K = {} THEN <<>>
    ELSE LET m == MaxStr(K)
             IsM(x) == x.timestamp = m
         IN  SelectSeq(s, IsM) \o DescendingByKey(s, K \ {m})

\* the generated records returned as they are, the sort forgotten
Unsorted(s) == s

\* sorted(auctions, key=lambda x: x.timestamp, reverse=True): the sort is
\* stable, so records with equal timestamps keep the order they were
\* generated in
SortedByTimestampReverse(s) == DescendingByKey(s, {s[i].timestamp : i \in DOMAIN s})

\* the minutes the ten iterations draw from random.randint(5, 1440): the
\* model samples the vectors that hold one value up to some iteration and
\* another value after it
MinuteVectors ==
    {[i \in 1..RecentCount |-> IF i <= k THEN a ELSE b] :
        k \in 1..RecentCount, a \in RandInt(5, 1440), b \in RandInt(5, 1440)}

get_recent_auctions ==
    \E now \in [1..RecentCount -> NowDraws],
       minutes \in MinuteVectors,
       pool_id \in [1..RecentCount -> RandIntLow(100000000, 999999999)],
       winner \in [1..RecentCount -> RandIntLow(100000000, 999999999)],
       winning_bid \in [1..RecentCount -> RandIntLow(100, 5000)],
       total_bids \in [1..RecentCount -> RandIntLow(3, 12)],
       block_number \in [1..RecentCount -> RandIntLow(18500000, 18600000)] :
      \E ids \in {Uuid4(RecentCount)} :
      \E auctions_ \in {[i \in 1..RecentCount |->
                          AuctionRecord(ids[i], pool_id[i], winner[i], winning_bid[i],
                                        total_bids[i],
                                        StrftimeTable[now[i] - 60 * minutes[i]],
                                        block_number[i])]} :
      \E new \in {[code |-> 200, kind |-> "list",
                   body |-> SortedByTimestampReverse(auctions_)]} :
        /\ req' = [endpoint |-> "GET /auctions/recent", arg |-> <<>>]
        /\ resp' = new
        /\ repeat' = Compare("GET /auctions/recent", <<>>, new)
        /\ UNCHANGED <<status_checks, auctions>>

(***************************************************************************)
(* GET /pools/performance and GET /operators.                              *)
(***************************************************************************)
RECURSIVE CommaStr(_)
\* f"{n:,}"
CommaStr(n) ==
    IF n < 1000 THEN IntStr(n)
    ELSE CommaStr(n \div 1000) \o <<44>> \o Digits3(n % 1000)

pool_names == <<"ETH/USDC", "ETH/USDT", "WBTC/ETH", "DAI/USDC", "LINK/ETH">>

\* lvrReduction is a float with one decimal, kept in tenths
PoolPerformance(id, name, pool_id, tvl, lvr_reduction, rewards, now) ==
    [id |-> id,
     name |-> name,
     poolId |-> HexAddress(pool_id),
     tvl |-> CommaStr(tvl),
     lvrReduction |-> lvr_reduction,
     rewardsDistributed |-> FloatStr(rewards, 2),
     lastUpdated |-> now]

get_pool_performance ==
    LET n == Len(pool_names)
    IN  \E now \in [1..n -> NowDraws],
           pool_id \in [1..n -> RandIntLow(100000000, 999999999)],
           tvl \in [1..n -> RandIntLow(1000000, 50000000)],
           lvr_reduction \in [1..n -> RandIntLow(5, 85)],
           rewards \in [1..n -> RandIntLow(500, 2500)] :
          LET ids == Uuid4(n)
              new == [code |-> 200, kind |-> "list",
                      body |-> [i \in 1..n |->
                                  PoolPerformance(ids[i], pool_names[i], pool_id[i],
                                                  tvl[i], lvr_reduction[i], rewards[i],
                                                  now[i])]]
          IN  /\ req' = [endpoint |-> "GET /pools/performance", arg |-> <<>>]
              /\ resp' = new
              /\ repeat' = Compare("GET /pools/performance", <<>>, new)
              /\ UNCHANGED <<status_checks, auctions>>

\* random.choice(["active", "active", "active", "inactive"]), one sample
StatusChoice == {"active"}

\* reputation is a float with two decimals, kept in hundredths
AVSOperator(id, address, stake, status, tasks_completed, reputation, now) ==
    [id |-> id,
     address |-> HexAddress(address),
     stake |-> IntStr(stake),
     status |-> status,
     tasksCompleted |-> tasks_completed,
     reputation |-> reputation,
     lastSeen |-> now]

get_avs_operators ==
    LET n == OperatorCount
    IN  \E now \in [1..n -> NowDraws],
           address \in [1..n -> RandIntLow(100000000, 999999999)],
           stake \in [1..n -> RandIntLow(1000, 10000)],
           status \in [1..n -> StatusChoice],
           tasks_completed \in [1..n -> RandIntLow(50, 500)],
           reputation \in [1..n -> RandIntLow(70, 100)] :
          LET ids == Uuid4(n)
              new == [code |-> 200, kind |-> "list",
                      body |-> [i \in 1..n |->
                                  AVSOperator(ids[i], address[i], stake[i], status[i],
                                              tasks_completed[i], reputation[i], now[i])]]
          IN  /\ req' = [endpoint |-> "GET /operators", arg |-> <<>>]
              /\ resp' = new
              /\ repeat' = Compare("GET /operators", <<>>, new)
              /\ UNCHANGED <<status_checks, auctions>>

Init ==
    /\ status_checks = <<>>
    /\ auctions = <<>>
    /\ req = NoRequest
    /\ resp = NoResponse
    /\ repeat = "none"

Next ==
    \/ \E body \in StatusBodies : create_status_check(body)
    \/ get_status_checks
    \/ get_auction_summary
    \/ \E body \in AuctionBodies : create_auction(body)
    \/ \E auction_id \in RequestedIds : get_auction_details(auction_id)

Spec == Init /\ [][Next]_vars

\* The database outlives the service: a run may start on a collection that
\* earlier runs filled.  Preloaded(n) is db.status_checks with n such documents.
Preloaded(n) ==
    [i \in 1..n |-> [_id |-> <<"oid", i>>, id |-> <<"uuid", i>>,
                     client_name |-> "earlier-run",
                     timestamp |-> 1767225800 - 60 * 1440]]

InitPreloaded ==
    /\ status_checks = Preloaded(ToListLength - 1)
    /\ auctions = <<>>
    /\ req = NoRequest
    /\ resp = NoResponse
    /\ repeat = "none"

\* the status endpoints, with the two auction views that read nothing stored
NextPreloaded ==
    \/ \E body \in StatusBodies : create_status_check(body)
    \/ get_status_checks
    \/ get_auction_summary
    \/ \E auction_id \in RequestedIds : get_auction_details(auction_id)

SpecPreloaded == InitPreloaded /\ [][NextPreloaded]_vars

\* the endpoints that list generated records
NextListings ==
    \/ get_recent_auctions
    \/ get_pool_performance
    \/ get_avs_operators

SpecListings == Init /\ [][NextListings]_vars

(***************************************************************************)
(* Properties.                                                             *)
(***************************************************************************)
\* every identifier a create operation stored in db.auctions
KnownAuctionIds ==
    {auctions[i].id : i \in DOMAIN auctions} \cup {auctions[i]["_id"] : i \in DOMAIN auctions}

DetailsOfUnknownId ==
    req.endpoint = "GET /auctions/{auction_id}" /\ req.arg \notin KnownAuctionIds

C2_RecentBoundedDescending ==
    req.endpoint = "GET /auctions/recent" =>
        /\ Len(resp.body) <= 10
        /\ \A i \in 1..(Len(resp.body) - 1) :
             ~StrLess(resp.body[i].timestamp, resp.body[i + 1].timestamp)

\* a recent list whose records were generated in ascending timestamp order
\* and which holds both a strict descent and a tie
C2_Witness ==
    /\ req.endpoint = "GET /auctions/recent"
    /\ Len(resp.body) = 10
    /\ resp.body[1].id[2] > resp.body[10].id[2]
    /\ StrLess(resp.body[10].timestamp, resp.body[1].timestamp)
    /\ \E i \in 1..9 : resp.body[i].timestamp = resp.body[i + 1].timestamp

\* C3: GET /auctions/{id} for an identifier that no create operation stored
\* answers 404 NotFoundError, never a detail record.
C3_UnknownIdNotFound ==
    DetailsOfUnknownId => resp.code = 404 /\ resp.kind = "error"

\* C4: POST /auctions with a negative totalBids is answered with a
\* ValidationError and leaves db.auctions as it was: no record with a
\* negative totalBids is ever stored.
C4_NegativeBidsRejected ==
    /\ (/\ req.endpoint = "POST /auctions"
        /\ "totalBids" \in DOMAIN req.arg
        /\ req.arg.totalBids < 0) => resp = ValidationError
    /\ \A i \in DOMAIN auctions : auctions[i].totalBids >= 0

\* C5: two consecutive GETs of a list or summary endpoint, with no write
\* between them, return identical responses.
C5_ReadsRepeat ==
    req.endpoint \in {"GET /auctions/summary", "GET /auctions/recent",
                      "GET /pools/performance", "GET /operators", "GET /status"}
        => repeat # "differ"

\* C6: no two documents of one collection share the same id field.
C6_IdsUnique ==
    /\ \A i, j \in DOMAIN status_checks :
         status_checks[i].id = status_checks[j].id => i = j
    /\ \A i, j \in DOMAIN auctions :
         auctions[i].id = auctions[j].id => i = j

\* C7: with no auction stored (the service stores no operator records at
\* all), GET /auctions/summary returns the zero-valued summary.
C7_EmptyStoreZeroSummary ==
    (resp.kind = "summary" /\ auctions = <<>>) =>
        /\ resp.code = 200
        /\ resp.body.activeAuctions = 0
        /\ resp.body.avsOperatorCount = 0
        /\ DecimalValue(resp.body.totalMEVRecovered, 2) = 0
        /\ DecimalValue(resp.body.totalLPRewards, 2) = 0

\* C8: GET /auctions/{id} for an identifier that was never created answers
\* 2xx with a body that has the fields id, poolId, status, startTime,
\* endTime, winner, winningBid, totalBids and participants, and whose id is
\* the requested identifier.
C8_UnknownIdGetsDetails ==
    DetailsOfUnknownId =>
        /\ resp.code \in 200..299
        /\ {"id", "poolId", "status", "startTime", "endTime", "winner",
            "winningBid", "totalBids", "participants"} \subseteq DOMAIN resp.body
        /\ resp.body.id = req.arg

\* the detail view of an identifier of the client's own, with auctions stored
\* under other identifiers
C8_Witness ==
    /\ DetailsOfUnknownId
    /\ req.arg = <<"client", 2>>
    /\ auctions # <<>>
    /\ resp.code = 200

\* C9 as stated: GET /status returns every StatusCheck stored, however many
\* there are.
C9_AllStatusChecksListed ==
    req.endpoint = "GET /status" =>
        \A i \in DOMAIN status_checks :
            \E j \in DOMAIN resp.body : resp.body[j].id = status_checks[i].id

\* C9 as amended: GET /status returns the first 1000 StatusChecks of the
\* collection, in store order; it omits none while at most 1000 are stored.
C9_FirstThousandListed ==
    req.endpoint = "GET /status" =>
        /\ Len(status_checks) <= 1000 => Len(resp.body) = Len(status_checks)
        /\ Len(status_checks) > 1000 => Len(resp.body) = 1000
        /\ \A i \in DOMAIN resp.body :
             /\ resp.body[i].id = status_checks[i].id
             /\ resp.body[i].client_name = status_checks[i].client_name
             /\ resp.body[i].timestamp = status_checks[i].timestamp

\* GET /status answered with 1001 documents stored, the last one left out
C9_Witness ==
    /\ req.endpoint = "GET /status"
    /\ Len(status_checks) = 1001
    /\ Len(resp.body) = 1000
    /\ status_checks[1001].client_name \in ClientNames

\* C10: in every detail view, totalBids is at least the number of
\* participants listed.
C10_BidsCoverParticipants ==
    resp.kind = "details" => resp.body.totalBids >= Len(resp.body.participants)

\* C11: a valid POST /auctions inserts exactly one record into db.auctions
\* and answers {id, message} with the id equal to the id field of the
\* record it inserted.
C11_ReturnedIdIsRecordId ==
    [][\A body \in AuctionBodies :
         (ValidAuctionRecord(body) /\ create_auction(body)) =>
            /\ Len(auctions') = Len(auctions) + 1
            /\ SubSeq(auctions', 1, Len(auctions)) = auctions
            /\ DOMAIN resp'.body = {"id", "message"}
            /\ resp'.body.id = auctions'[Len(auctions')].id]_vars
====
